---- MODULE Spec2Model ----
(***************************************************************************)
(* CartProvider of client/src/context/CartContext.jsx: a React component   *)
(* holding the cart list (cartItems) and the loading flag, restoring the   *)
(* list from localStorage["cartItems"] in a mount effect and writing it    *)
(* back in an effect that depends on [cartItems, loading].                 *)
(*                                                                         *)
(* React semantics the model keeps:                                        *)
(*  - addToCart, removeFromCart, updateQuantity and clearCart are closures *)
(*    of the committed render: they read that render's cartItems and call  *)
(*    setCartItems(value) with a value, not with an updater function;      *)
(*  - the set* calls of one turn are queued and applied by the next        *)
(*    render, which takes the value of the last one;                       *)
(*  - the passive effects of a commit run before the next render; a        *)
(*    handler that runs between a commit and its effects reads the same    *)
(*    closure as one that runs after them and commutes with the persist    *)
(*    effect, so handlers are interleaved only after the effects;          *)
(*  - the effects of the descendants of the provider run before the        *)
(*    provider's own mount effects, so a mutation can be called before     *)
(*    restore.                                                             *)
(*  - the set* calls of the mount effect are applied by a render that      *)
(*    React schedules as a task of its own, so a handler can run between   *)
(*    the mount effect and that render, while loading is still true.       *)
(***************************************************************************)
EXTENDS Integers, Sequences, FiniteSets, TLC

VARIABLES
    storage,        \* localStorage entry under the key "cartItems"
    cartItems,      \* useState value of the committed render (line 14)
    loading,        \* useState value of the committed render (line 15)
    calls,          \* setCartItems calls queued since the committed render
    loadingPending, \* setLoading(false) queued since the committed render
    effects,        \* passive effects still to run for the latest commit
    crashed,        \* a render of the provider threw
    cartContextValue, \* totalItems and totalPrice of the committed render's
                    \* context value (lines 109-118)
    startup         \* progress of the session's startup: "pending" until the
                    \* mount effect has run, then the branch it took ("absent",
                    \* "parsed", "caught"), and "done" once the persist effect
                    \* of the render it triggers has run

vars == <<storage, cartItems, loading, calls, loadingPending, effects, crashed,
          cartContextValue, startup>>

-----------------------------------------------------------------------------
(* Bounds *)

\* setCartItems calls of handlers in one turn (between two renders)
MaxBatch == 2
\* operations the descendants of the provider call in their mount effects
MaxMountCalls == 1
\* largest quantity a line item reaches through addToCart
MaxQuantity == 2
\* number literals the JSON reader recognises are -NumLimit..NumLimit
NumLimit == 9

-----------------------------------------------------------------------------
(* Data *)

\* the keys of a line item, in the order of the object literal of addToCart
ItemKeys == <<"productId", "title", "price", "imageUrl", "stock", "quantity">>

ItemFields == {ItemKeys[i] : i \in 1..Len(ItemKeys)}

StringFields == {"productId", "title", "imageUrl"}

\* products passed to addToCart; the second one is the first one after its
\* title and price changed in the catalogue
Products ==
    { [_id |-> "p1", title |-> "A",  price |-> 5, imageUrl |-> "x", stock |-> 3],
      [_id |-> "p1", title |-> "A2", price |-> 6, imageUrl |-> "x", stock |-> 3],
      [_id |-> "p2", title |-> "B",  price |-> 2, imageUrl |-> "y", stock |-> 1] }

ProductIds == {p._id : p \in Products}

\* quantities passed to addToCart, the default 1 included
Quantities == {1, 2}

\* quantities passed to updateQuantity
NewQuantities == {-1, 0, 2}

NoProduct == [_id |-> "", title |-> "", price |-> 0, imageUrl |-> "", stock |-> 0]

\* the object literal of addToCart
NewItem(product, quantity) ==
    [productId |-> product._id, title |-> product.title, price |-> product.price,
     imageUrl |-> product.imageUrl, stock |-> product.stock, quantity |-> quantity]

-----------------------------------------------------------------------------
(* JavaScript values that JSON.parse can return, and JSON texts.  A text is *)
(* the sequence of its tokens.                                              *)

JNull == [k |-> "null"]
JNum(n) == [k |-> "num", n |-> n]
JStr(s) == [k |-> "str", s |-> s]
JObj(o) == [k |-> "obj", o |-> o]
JArr(a) == [k |-> "arr", a |-> a]

Strings == ItemFields \cup {"p1", "p2", "A", "A2", "B", "x", "y"}

Numbers == (0 - NumLimit)..NumLimit

Quote(s) == "\"" \o s \o "\""

\* the tokens of the string literals and of the number literals
StringTokens == {Quote(s) : s \in Strings}

NumberTokens == {ToString(n) : n \in Numbers}

IsStringToken(tok) == tok \in StringTokens

IsNumberToken(tok) == tok \in NumberTokens

\* the string a string literal denotes
StringOf == [tok \in StringTokens |-> CHOOSE s \in Strings : Quote(s) = tok]

\* the number a number literal denotes
NumberOf == [tok \in NumberTokens |-> CHOOSE n \in Numbers : ToString(n) = tok]

Unquote(tok) == StringOf[tok]

ToNumber(tok) == NumberOf[tok]

\* JSON.stringify of one field of a line item
StringifyField(item, key) ==
    <<Quote(key), ":",
      IF key \in StringFields THEN Quote(item[key]) ELSE ToString(item[key])>>

RECURSIVE StringifyMembers(_, _)
StringifyMembers(item, i) ==
    IF i > Len(ItemKeys) THEN <<>>
    ELSE (IF i > 1 THEN <<",">> ELSE <<>>)
         \o StringifyField(item, ItemKeys[i]) \o StringifyMembers(item, i + 1)

StringifyItem(item) == <<"{">> \o StringifyMembers(item, 1) \o <<"}">>

RECURSIVE StringifyElements(_, _)
StringifyElements(items, i) ==
    IF i > Len(items) THEN <<>>
    ELSE (IF i > 1 THEN <<",">> ELSE <<>>)
         \o StringifyItem(items[i]) \o StringifyElements(items, i + 1)

\* JSON.stringify(cartItems) of the persist effect
Stringify(items) == <<"[">> \o StringifyElements(items, 1) \o <<"]">>

Failed == [ok |-> FALSE, v |-> JNull, next |-> 0]

Parsed(v, next) == [ok |-> TRUE, v |-> v, next |-> next]

\* the object with the members `pairs`, a later member replacing an earlier
\* one of the same key
MakeObject(pairs) ==
    [key \in {pairs[i].key : i \in 1..Len(pairs)} |->
        LET last == CHOOSE i \in 1..Len(pairs) :
                        /\ pairs[i].key = key
                        /\ \A j \in (i + 1)..Len(pairs) : pairs[j].key # key
        IN  pairs[last].v]

RECURSIVE ParseValue(_, _), ParseElements(_, _, _), ParseMembers(_, _, _)

\* the JSON value that starts at token i of text t
ParseValue(t, i) ==
    IF i > Len(t) THEN Failed
    ELSE IF t[i] = "null" THEN Parsed(JNull, i + 1)
    ELSE IF IsNumberToken(t[i]) THEN Parsed(JNum(ToNumber(t[i])), i + 1)
    ELSE IF IsStringToken(t[i]) THEN Parsed(JStr(Unquote(t[i])), i + 1)
    ELSE IF t[i] = "[" THEN
        IF i + 1 <= Len(t) /\ t[i + 1] = "]" THEN Parsed(JArr(<<>>), i + 2)
        ELSE ParseElements(t, i + 1, <<>>)
    ELSE IF t[i] = "{" THEN
        IF i + 1 <= Len(t) /\ t[i + 1] = "}" THEN Parsed(JObj(<<>>), i + 2)
        ELSE ParseMembers(t, i + 1, <<>>)
    ELSE Failed

\* the elements of an array from token i on, `acc` read so far
ParseElements(t, i, acc) ==
    LET e == ParseValue(t, i) IN
    IF ~e.ok \/ e.next > Len(t) THEN Failed
    ELSE IF t[e.next] = "]" THEN Parsed(JArr(Append(acc, e.v)), e.next + 1)
    ELSE IF t[e.next] = "," THEN ParseElements(t, e.next + 1, Append(acc, e.v))
    ELSE Failed

\* the members of an object from token i on, `acc` read so far
ParseMembers(t, i, acc) ==
    IF i + 1 > Len(t) \/ ~IsStringToken(t[i]) \/ t[i + 1] # ":" THEN Failed
    ELSE
        LET m == ParseValue(t, i + 2)
            pairs == Append(acc, [key |-> Unquote(t[i]), v |-> m.v])
        IN  IF ~m.ok \/ m.next > Len(t) THEN Failed
            ELSE IF t[m.next] = "}" THEN Parsed(JObj(MakeObject(pairs)), m.next + 1)
            ELSE IF t[m.next] = "," THEN ParseMembers(t, m.next + 1, pairs)
            ELSE Failed

\* JSON.parse(text): ok is FALSE where JSON.parse throws a SyntaxError
Parse(text) ==
    LET r == ParseValue(text, 1) IN
    IF r.ok /\ r.next = Len(text) + 1 THEN r ELSE Failed

\* a parsed object that has the fields of a line item, each of its type
IsItemObject(v) ==
    /\ v.k = "obj"
    /\ DOMAIN v.o = ItemFields
    /\ \A f \in ItemFields : v.o[f].k = (IF f \in StringFields THEN "str" ELSE "num")

\* a parsed value that is an array of line items
IsCartArray(v) == v.k = "arr" /\ \A i \in 1..Len(v.a) : IsItemObject(v.a[i])

\* the line item a parsed object stands for
AsItem(v) == [f \in ItemFields |-> IF f \in StringFields THEN v.o[f].s ELSE v.o[f].n]

\* the list of line items a parsed array stands for
AsCart(v) == [i \in 1..Len(v.a) |-> AsItem(v.a[i])]

-----------------------------------------------------------------------------
(* The entry under the key "cartItems" *)

NoEntry == [present |-> FALSE, text |-> <<>>]

Entry(text) == [present |-> TRUE, text |-> text]

\* the stored example of the documentation: one line item of quantity 2
StoredExample == <<NewItem(CHOOSE p \in Products : p.title = "A", 2)>>

\* a stored array in which two line items share a productId
StoredDuplicate ==
    <<NewItem(CHOOSE p \in Products : p.title = "A", 1),
      NewItem(CHOOSE p \in Products : p.title = "A2", 2)>>

\* texts the key can hold when the first session starts: texts that are not
\* JSON, JSON values that are not arrays, arrays of line items, and an array
\* with a null element
InitialTexts ==
    { <<>>, <<"not", "json">>, <<"[", "{">>,
      <<"null">>, <<"5">>, <<"{", "}">>, <<"[", "null", "]">>,
      <<"[", "]">>, Stringify(StoredExample), Stringify(StoredDuplicate) }

InitialEntries == {NoEntry} \cup {Entry(t) : t \in InitialTexts}

-----------------------------------------------------------------------------
(* The values the four operations pass to setCartItems *)

\* cartItems.findIndex(item => item.productId === id): 0 stands for -1
FindIndex(items, id) ==
    IF \E i \in 1..Len(items) : items[i].productId = id
    THEN CHOOSE i \in 1..Len(items) :
            /\ items[i].productId = id
            /\ \A j \in 1..(i - 1) : items[j].productId # id
    ELSE 0

\* AddToCartItems that rebuilds the existing line item from the product passed
AddToCartItemsRefreshes(items, product, quantity) ==
    LET existingItemIndex == FindIndex(items, product._id) IN
    IF existingItemIndex > 0
    THEN [index \in 1..Len(items) |->
            IF index = existingItemIndex
            THEN NewItem(product, items[index].quantity + quantity)
            ELSE items[index]]
    ELSE Append(items, NewItem(product, quantity))

\* the array addToCart passes to setCartItems
AddToCartItems(items, product, quantity) ==
    LET existingItemIndex == FindIndex(items, product._id) IN
    IF existingItemIndex > 0
    THEN [index \in 1..Len(items) |->
            IF index = existingItemIndex
            THEN [items[index] EXCEPT !.quantity = @ + quantity]
            ELSE items[index]]
    ELSE Append(items, NewItem(product, quantity))

KeepsItem(item, productId) == item.productId # productId

\* RemoveFromCartItems with the test of the filter inverted
RemoveFromCartItemsKeepsMatching(items, productId) ==
    SelectSeq(items, LAMBDA item : ~KeepsItem(item, productId))

\* the array removeFromCart passes to setCartItems
RemoveFromCartItems(items, productId) ==
    SelectSeq(items, LAMBDA item : KeepsItem(item, productId))

\* UpdateQuantityItems that raises a quantity below 1 to 1
UpdateQuantityItemsClamped(items, productId, newQuantity) ==
    [index \in 1..Len(items) |->
        IF items[index].productId = productId
        THEN [items[index] EXCEPT !.quantity = IF newQuantity < 1 THEN 1 ELSE newQuantity]
        ELSE items[index]]

\* the array updateQuantity passes to setCartItems
UpdateQuantityItems(items, productId, newQuantity) ==
    [index \in 1..Len(items) |->
        IF items[index].productId = productId
        THEN [items[index] EXCEPT !.quantity = newQuantity]
        ELSE items[index]]

\* the array clearCart passes to setCartItems
ClearCartItems == <<>>

\* a queued setCartItems call: the operation and its arguments, and for the
\* call of the restore effect the parsed value
Call(op, product, productId, quantity, value) ==
    [op |-> op, product |-> product, productId |-> productId,
     quantity |-> quantity, value |-> value]

AddCall(product, quantity) == Call("addToCart", product, product._id, quantity, JNull)
RemoveCall(productId) == Call("removeFromCart", NoProduct, productId, 0, JNull)
UpdateCall(productId, newQuantity) ==
    Call("updateQuantity", NoProduct, productId, newQuantity, JNull)
ClearCall == Call("clearCart", NoProduct, "", 0, JNull)
RestoreCall(value) == Call("restore", NoProduct, "", 0, value)

\* CallItems with a restore that drops the parsed array
CallItemsRestoreEmpty(call, items) ==
    CASE call.op = "addToCart" -> AddToCartItems(items, call.product, call.quantity)
      [] call.op = "removeFromCart" -> RemoveFromCartItems(items, call.productId)
      [] call.op = "updateQuantity" ->
            UpdateQuantityItems(items, call.productId, call.quantity)
      [] call.op = "clearCart" -> ClearCartItems
      [] call.op = "restore" -> <<>>

\* CallItems with a clearCart that keeps the list
CallItemsClearKeeps(call, items) ==
    CASE call.op = "addToCart" -> AddToCartItems(items, call.product, call.quantity)
      [] call.op = "removeFromCart" -> RemoveFromCartItems(items, call.productId)
      [] call.op = "updateQuantity" ->
            UpdateQuantityItems(items, call.productId, call.quantity)
      [] call.op = "clearCart" -> items
      [] call.op = "restore" -> AsCart(call.value)

\* the array a handler call computes from the cartItems of its closure
CallItems(call, items) ==
    CASE call.op = "addToCart" -> AddToCartItems(items, call.product, call.quantity)
      [] call.op = "removeFromCart" -> RemoveFromCartItems(items, call.productId)
      [] call.op = "updateQuantity" ->
            UpdateQuantityItems(items, call.productId, call.quantity)
      [] call.op = "clearCart" -> ClearCartItems
      [] call.op = "restore" -> AsCart(call.value)

\* React applies the queued setCartItems calls in order; each carries a value,
\* so the state after them is the value of the last one
QueuedItems(queue, items) == CallItems(queue[Len(queue)], items)

-----------------------------------------------------------------------------
(* Derived values of a render *)

RECURSIVE SumQuantity(_, _)
SumQuantity(items, i) ==
    IF i > Len(items) THEN 0 ELSE items[i].quantity + SumQuantity(items, i + 1)

\* cartItems.reduce((acc, item) => acc + item.quantity, 0)
TotalItems(items) == SumQuantity(items, 1)

RECURSIVE SumPrice(_, _)
SumPrice(items, i) ==
    IF i > Len(items) THEN 0
    ELSE items[i].price * items[i].quantity + SumPrice(items, i + 1)

\* cartItems.reduce((acc, item) => acc + (item.price * item.quantity), 0)
TotalPrice(items) == SumPrice(items, 1)

\* toFixed without its fraction digits
ToFixedNoDigits(n) == ToString(n)

\* n.toFixed(2) of an integer-valued number n
ToFixed(n) == ToString(n) \o ".00"

\* the totals of the context value of a render of `items`
ContextValue(items) ==
    [totalItems |-> TotalItems(items), totalPrice |-> ToFixed(TotalPrice(items))]

\* the reduce calls of a render throw a TypeError when the state is not an
\* array (null, a number, a string, an object) or holds a null element
RenderThrows(value) ==
    \/ value.k # "arr"
    \/ \E i \in 1..Len(value.a) : value.a[i].k = "null"

\* the render that applies `queue` throws
QueueThrows(queue) ==
    /\ queue # <<>>
    /\ queue[Len(queue)].op = "restore"
    /\ RenderThrows(queue[Len(queue)].value)

-----------------------------------------------------------------------------
(* State machine *)

Init ==
    /\ storage \in InitialEntries
    /\ cartItems = <<>>
    /\ loading = TRUE
    /\ calls = <<>>
    /\ loadingPending = FALSE
    /\ effects = "mount"
    /\ crashed = FALSE
    /\ cartContextValue = ContextValue(<<>>)
    /\ startup = "pending"

\* a handler (or the mount effect of a descendant) can call an operation of
\* the context value
CanCall ==
    /\ ~crashed
    /\ \/ effects = "mount" /\ Len(calls) < MaxMountCalls
       \/ effects = "none" /\ Len(calls) < MaxBatch

\* setCartItems(value) of a handler
Enqueue(call) ==
    /\ calls' = Append(calls, call)
    /\ UNCHANGED <<storage, cartItems, loading, loadingPending, effects, crashed,
                   cartContextValue, startup>>

addToCart(product, quantity) ==
    /\ CanCall
    /\ \A i \in 1..Len(cartItems) :
          cartItems[i].productId = product._id
              => cartItems[i].quantity + quantity <= MaxQuantity
    /\ Enqueue(AddCall(product, quantity))

removeFromCart(productId) ==
    /\ CanCall
    /\ Enqueue(RemoveCall(productId))

updateQuantity(productId, newQuantity) ==
    /\ CanCall
    /\ Enqueue(UpdateCall(productId, newQuantity))

clearCart ==
    /\ CanCall
    /\ Enqueue(ClearCall)

\* Restore with a catch block that leaves the entry in storage
RestoreKeepsEntry ==
    /\ effects = "mount"
    /\ LET storedCart == storage
           parsed == Parse(storedCart.text)
       IN  IF storedCart.present /\ storedCart.text # <<>>
           THEN IF parsed.ok
                THEN /\ calls' = Append(calls, RestoreCall(parsed.v))
                     /\ startup' = "parsed"
                ELSE /\ calls' = calls
                     /\ startup' = "caught"
           ELSE /\ calls' = calls
                /\ startup' = "absent"
    /\ storage' = storage
    /\ loadingPending' = TRUE
    /\ effects' = "mounted"
    /\ UNCHANGED <<cartItems, loading, crashed, cartContextValue>>

\* the mount effect, lines 21-39
Restore ==
    /\ effects = "mount"
    /\ LET storedCart == storage
           parsed == Parse(storedCart.text)
       IN  IF storedCart.present /\ storedCart.text # <<>>
           THEN IF parsed.ok
                THEN /\ calls' = Append(calls, RestoreCall(parsed.v))
                     /\ storage' = storage
                     /\ startup' = "parsed"
                ELSE /\ storage' = NoEntry
                     /\ calls' = calls
                     /\ startup' = "caught"
           ELSE /\ calls' = calls
                /\ storage' = storage
                /\ startup' = "absent"
    /\ loadingPending' = TRUE
    /\ effects' = "mounted"
    /\ UNCHANGED <<cartItems, loading, crashed, cartContextValue>>

\* Persist without the test of loading
PersistWhileLoading ==
    /\ effects \in {"mounted", "update"}
    /\ storage' = Entry(Stringify(cartItems))
    /\ effects' = "none"
    /\ startup' = IF effects = "update" THEN "done" ELSE startup
    /\ UNCHANGED <<cartItems, loading, calls, loadingPending, crashed, cartContextValue>>

\* Persist that writes nothing for an empty list
PersistSkipsEmpty ==
    /\ effects \in {"mounted", "update"}
    /\ storage' = IF ~loading /\ cartItems # <<>> THEN Entry(Stringify(cartItems))
                  ELSE storage
    /\ effects' = "none"
    /\ startup' = IF effects = "update" THEN "done" ELSE startup
    /\ UNCHANGED <<cartItems, loading, calls, loadingPending, crashed, cartContextValue>>

\* the effect on [cartItems, loading], lines 42-47
Persist ==
    /\ effects \in {"mounted", "update"}
    /\ storage' = IF ~loading THEN Entry(Stringify(cartItems)) ELSE storage
    /\ effects' = "none"
    /\ startup' = IF effects = "update" THEN "done" ELSE startup
    /\ UNCHANGED <<cartItems, loading, calls, loadingPending, crashed, cartContextValue>>

\* React renders the provider with the queued state updates
Render ==
    /\ ~crashed
    /\ effects = "none"
    /\ calls # <<>> \/ loadingPending
    /\ IF QueueThrows(calls)
       THEN /\ crashed' = TRUE
            /\ effects' = "none"
            /\ UNCHANGED <<cartItems, loading, cartContextValue>>
       ELSE /\ cartItems' = IF calls # <<>> THEN QueuedItems(calls, cartItems)
                            ELSE cartItems
            /\ cartContextValue' = ContextValue(cartItems')
            /\ loading' = (loading /\ ~loadingPending)
            /\ effects' = "update"
            /\ crashed' = FALSE
    /\ calls' = <<>>
    /\ loadingPending' = FALSE
    /\ UNCHANGED <<storage, startup>>

\* the page is loaded again: a new session starts on the same storage
Reload ==
    /\ cartItems' = <<>>
    /\ loading' = TRUE
    /\ calls' = <<>>
    /\ loadingPending' = FALSE
    /\ effects' = "mount"
    /\ crashed' = FALSE
    /\ cartContextValue' = ContextValue(<<>>)
    /\ startup' = "pending"
    /\ UNCHANGED storage

Next ==
    \/ \E product \in Products, quantity \in Quantities : addToCart(product, quantity)
    \/ \E productId \in ProductIds : removeFromCart(productId)
    \/ \E productId \in ProductIds, newQuantity \in NewQuantities :
          updateQuantity(productId, newQuantity)
    \/ clearCart
    \/ Restore
    \/ Persist
    \/ Render
    \/ Reload

Spec == Init /\ [][Next]_vars

TypeOK ==
    /\ storage.present \in BOOLEAN
    /\ loading \in BOOLEAN
    /\ loadingPending \in BOOLEAN
    /\ crashed \in BOOLEAN
    /\ effects \in {"mount", "mounted", "update", "none"}
    /\ startup \in {"pending", "absent", "parsed", "caught", "done"}
    /\ \A i \in 1..Len(cartItems) : DOMAIN cartItems[i] = ItemFields
    /\ \A i \in 1..Len(calls) :
          calls[i].op = "restore" =>
              IsCartArray(calls[i].value) \/ RenderThrows(calls[i].value)

-----------------------------------------------------------------------------
(* Vocabulary of the properties *)

\* the step is a render that commits new state
RenderStep == effects = "none" /\ effects' = "update"

\* the step is the mount effect
RestoreStep == effects = "mount" /\ effects' = "mounted"

\* the step is the persist effect of a render
PersistStep == effects = "update" /\ effects' = "none"

\* every queued call is a call of one of the four operations
HandlerCalls(queue) == \A i \in 1..Len(queue) : queue[i].op # "restore"

\* the list after the calls of `queue` from the i-th on, each applied to the
\* result of the one before
RECURSIVE ApplyInOrder(_, _, _)
ApplyInOrder(queue, items, i) ==
    IF i > Len(queue) THEN items
    ELSE ApplyInOrder(queue, CallItems(queue[i], items), i + 1)

\* the line items of product id
LinesOf(items, id) == {i \in 1..Len(items) : items[i].productId = id}

RECURSIVE QuantityFrom(_, _, _)
QuantityFrom(items, id, i) ==
    IF i > Len(items) THEN 0
    ELSE (IF items[i].productId = id THEN items[i].quantity ELSE 0)
         + QuantityFrom(items, id, i + 1)

\* the sum of the quantities of the line items of product id; over a queue of
\* addToCart calls, the sum of the quantities passed for id
QuantityOf(items, id) == QuantityFrom(items, id, 1)

UniqueProductIds(items) == \A id \in ProductIds : Cardinality(LinesOf(items, id)) <= 1

\* the entry holds a text that JSON.parse rejects
Unparseable(entry) == entry.present /\ ~Parse(entry.text).ok

EmptyArrayText == <<"[", "]">>

\* lists of up to two line items built from the products
SomeItems == {NewItem(p, q) : p \in Products, q \in NewQuantities \cup Quantities}

SomeCarts == {<<>>} \cup {<<a>> : a \in SomeItems} \cup {<<a, b>> : a, b \in SomeItems}

\* the entry persist writes for each of these lists
PersistedEntry == [C \in SomeCarts |-> Entry(Stringify(C))]

-----------------------------------------------------------------------------
(* Properties *)

\* C1: once loading is false, the addToCart calls of a turn, made on a list
\* with one line item per productId, leave at most one line item per
\* productId, its quantity raised by the sum of the quantities passed for that
\* productId (from the empty list: equal to that sum).
C1_AddsSum ==
    [][(/\ RenderStep
        /\ ~loading
        /\ calls # <<>>
        /\ \A i \in 1..Len(calls) : calls[i].op = "addToCart"
        /\ UniqueProductIds(cartItems))
       => \A id \in ProductIds :
            /\ Cardinality(LinesOf(cartItems', id)) <= 1
            /\ QuantityOf(cartItems', id) = QuantityOf(cartItems, id) + QuantityOf(calls, id)]_vars

\* C2: no two line items of cartItems share a productId, in every reachable
\* state.
C2_UniqueProductIds ==
    \A i, j \in 1..Len(cartItems) :
        i # j => cartItems[i].productId # cartItems[j].productId

\* C3: while loading is true no step writes a value under the key, and no step
\* changes the entry before the mount effect has read it; the only change of
\* the entry while loading is true is the removal by the mount effect.
C3_NoWriteWhileLoading ==
    [][loading =>
        /\ storage'.present => storage' = storage
        /\ effects' = "mount" => storage' = storage
        /\ storage' # storage => RestoreStep /\ Unparseable(storage)]_vars

\* the persist effect has run with loading true after a mutation was called
\* before restore, and the stored example is still in storage
C3_Witness ==
    /\ loading
    /\ loadingPending
    /\ effects = "none"
    /\ Len(calls) = 2
    /\ calls[1].op = "addToCart"
    /\ calls[2].op = "restore"
    /\ storage = Entry(Stringify(StoredExample))

\* C4 as claimed: with an unparseable text under the key (a text restore
\* hands to JSON.parse, so not the empty one), restore raises no error, leaves
\* the list empty and removes the key, and the key is absent once the persist
\* effect that restore triggers has run.
C4_KeyAbsentAfterStartup ==
    [][/\ (RestoreStep /\ Unparseable(storage) /\ storage.text # <<>>)
            => ~crashed' /\ cartItems' = <<>> /\ ~storage'.present
       /\ (PersistStep /\ startup = "caught")
            => ~crashed' /\ cartItems' = <<>> /\ ~storage'.present]_vars

\* C4 as amended: with an unparseable text under the key, restore raises no
\* error and queues no change of the list; it removes the key, unless the text
\* is empty, which it treats as no entry; the render it triggers does not
\* throw, and the persist effect of that render writes the key again: it then
\* holds the serialization of cartItems, "[]" for the empty list.
C4_KeyRewrittenAfterStartup ==
    [][/\ (RestoreStep /\ Unparseable(storage))
            => /\ calls' = calls /\ cartItems' = cartItems
               /\ ~crashed'
               /\ IF storage.text # <<>>
                  THEN startup' = "caught" /\ storage' = NoEntry
                  ELSE startup' = "absent" /\ storage' = storage
       /\ (startup = "caught" /\ startup' # "pending") => ~crashed'
       /\ (PersistStep /\ startup \in {"caught", "absent"})
            => /\ storage' = Entry(Stringify(cartItems))
               /\ cartItems = <<>> => storage' = Entry(EmptyArrayText)]_vars

\* restore has removed the unparseable entry, the render it triggered has
\* committed the empty list with loading false, and the persist effect of that
\* render is about to run
C4_Witness ==
    /\ startup = "caught"
    /\ effects = "update"
    /\ ~loading
    /\ cartItems = <<>>
    /\ ~storage.present

\* C5: whatever text the key holds at startup, no render throws: cartItems is
\* a list and totalItems and totalPrice are computed from it.
C5_RestoreNeverCrashes == ~crashed

\* C6: once loading is false, two or more operations called in one turn,
\* before the provider has rendered again, leave the list that results from
\* applying them one after the other.
C6_BatchIsSequential ==
    [][(RenderStep /\ ~loading /\ Len(calls) >= 2 /\ HandlerCalls(calls))
       => cartItems' = ApplyInOrder(calls, cartItems, 1)]_vars

\* C7: removeFromCart(id) followed by addToCart(product, q) of the product
\* with that id leaves exactly one line item for id, of quantity q.
C7_RemoveThenAdd ==
    [][(/\ RenderStep
        /\ Len(calls) = 2
        /\ calls[1].op = "removeFromCart"
        /\ calls[2].op = "addToCart"
        /\ calls[2].productId = calls[1].productId)
       => /\ Cardinality(LinesOf(cartItems', calls[1].productId)) = 1
          /\ QuantityOf(cartItems', calls[1].productId) = calls[2].quantity]_vars

\* C8: once loading is false and the effects of the latest render have run,
\* the key holds the serialization of cartItems.
C8_StorageMirrorsCart ==
    (~loading /\ effects = "none") => storage = Entry(Stringify(cartItems))

\* two line items are in the list, the effects have run and the key holds
\* their serialization
C8_Witness ==
    /\ ~loading
    /\ effects = "none"
    /\ calls = <<>>
    /\ Len(cartItems) = 2
    /\ cartItems[1].productId # cartItems[2].productId
    /\ storage = Entry(Stringify(cartItems))

\* C9: when the key holds the serialization of a list C, as persist writes it,
\* the render that ends restore commits cartItems = C, with the totalItems of
\* C, provided no operation was called between the mount effect and that
\* render.
C9_RoundTrip ==
    [][(/\ RenderStep
        /\ startup = "parsed"
        /\ calls[Len(calls)].op = "restore")
       => \A C \in SomeCarts :
            storage = PersistedEntry[C]
                => cartItems' = C /\ TotalItems(cartItems') = TotalItems(C)]_vars

\* a session has restored a list of two products, which only an earlier
\* session can have persisted
C9_Witness ==
    /\ startup = "parsed"
    /\ effects = "update"
    /\ ~loading
    /\ Len(cartItems) = 2
    /\ cartItems[1].productId # cartItems[2].productId
    /\ cartItems[2].quantity = -1
    /\ storage = Entry(Stringify(cartItems))

\* C10: the render that applies clearCart commits the empty list, of
\* totalItems 0, and once loading is false the persist effect of a render of
\* the empty list writes the empty array.
C10_ClearEmpties ==
    [][/\ (RenderStep /\ calls # <<>> /\ calls[Len(calls)].op = "clearCart")
            => cartItems' = <<>> /\ TotalItems(cartItems') = 0
       /\ (PersistStep /\ ~loading /\ cartItems = <<>>)
            => storage' = Entry(EmptyArrayText)]_vars

\* clearCart has been called on a list of two line items whose serialization
\* is in storage
C10_Witness ==
    /\ ~loading
    /\ effects = "none"
    /\ Len(cartItems) = 2
    /\ storage = Entry(Stringify(cartItems))
    /\ calls # <<>>
    /\ calls[Len(calls)].op = "clearCart"

\* the sum of the quantities of the line items, from the last one to the first
RECURSIVE QuantitySum(_)
QuantitySum(items) ==
    IF items = <<>> THEN 0
    ELSE QuantitySum(SubSeq(items, 1, Len(items) - 1)) + items[Len(items)].quantity

\* the sum of price * quantity of the line items, from the last one to the first
RECURSIVE PriceSum(_)
PriceSum(items) ==
    IF items = <<>> THEN 0
    ELSE PriceSum(SubSeq(items, 1, Len(items) - 1))
         + items[Len(items)].price * items[Len(items)].quantity

\* C11: in every state the exposed totalItems is the sum of quantity over the
\* line items of cartItems, and the exposed totalPrice is the sum of
\* price * quantity over them, written with exactly two fraction digits.
C11_TotalsDerived ==
    /\ cartContextValue.totalItems = QuantitySum(cartItems)
    /\ cartContextValue.totalPrice = ToString(PriceSum(cartItems)) \o ".00"

\* two line items of different prices and quantities are in the list, with
\* totalItems 3 and totalPrice "12.00"
C11_Witness ==
    /\ Len(cartItems) = 2
    /\ cartItems[1].productId # cartItems[2].productId
    /\ cartItems[1].quantity # cartItems[2].quantity
    /\ cartContextValue.totalItems = 3
    /\ cartContextValue.totalPrice = "12.00"

\* the call whose value the next render commits
LastCall == calls[Len(calls)]

\* the line item `item` with its quantity replaced by n
WithQuantity(item, n) ==
    [f \in ItemFields |-> IF f = "quantity" THEN n ELSE item[f]]

\* the line items of `items` of another product than id, in their order
RECURSIVE Without(_, _)
Without(items, id) ==
    IF items = <<>> THEN <<>>
    ELSE Without(SubSeq(items, 1, Len(items) - 1), id)
         \o (IF items[Len(items)].productId = id THEN <<>> ELSE <<items[Len(items)]>>)

\* the first line item of product id
FirstLineOf(items, id) ==
    CHOOSE i \in LinesOf(items, id) : \A j \in LinesOf(items, id) : i <= j

\* C12: every line item of cartItems has a quantity of at least 1, in every
\* reachable state.
C12_QuantityAtLeastOne == \A i \in 1..Len(cartItems) : cartItems[i].quantity >= 1

\* C13: the render that applies updateQuantity(productId, n) to a list holding
\* productId commits the same list with the quantity of the line items of
\* productId set to n, for n negative, zero and positive: no line item is
\* removed or moved, no quantity is clamped, and no other field or line item
\* changes.
C13_UpdateSetsVerbatim ==
    [][(/\ RenderStep
        /\ calls # <<>>
        /\ LastCall.op = "updateQuantity"
        /\ LinesOf(cartItems, LastCall.productId) # {})
       => /\ Len(cartItems') = Len(cartItems)
          /\ \A i \in 1..Len(cartItems) :
                cartItems'[i] = IF cartItems[i].productId = LastCall.productId
                                THEN WithQuantity(cartItems[i], LastCall.quantity)
                                ELSE cartItems[i]]_vars

\* updateQuantity("p1", -1) has been called on a list of two products in
\* which p1 comes first, with quantity 2
C13_Witness ==
    /\ ~loading
    /\ effects = "none"
    /\ Len(cartItems) = 2
    /\ cartItems[1].productId = "p1"
    /\ cartItems[1].quantity = 2
    /\ cartItems[2].productId = "p2"
    /\ Len(calls) = 1
    /\ calls[1] = UpdateCall("p1", -1)

\* C14: loading is true until restore has run; the render that restore
\* triggers commits loading = false, whatever the key held; and loading never
\* goes back to true within a session.
C14_LoadingThenReady ==
    [][/\ startup = "pending" => loading
       /\ (~loading /\ startup' # "pending") => ~loading'
       /\ (/\ effects = "none"
           /\ loadingPending
           /\ ~loadingPending'
           /\ startup' # "pending") => ~loading']_vars

\* C15: the render that applies removeFromCart or updateQuantity of a
\* productId that is not in the list commits the same list; the render that
\* applies removeFromCart of a productId in the list commits the list without
\* the line item of that productId, the others in their order.
C15_MissesAreNoOps ==
    [][/\ (/\ RenderStep
           /\ calls # <<>>
           /\ LastCall.op \in {"removeFromCart", "updateQuantity"}
           /\ LinesOf(cartItems, LastCall.productId) = {})
          => cartItems' = cartItems
       /\ (/\ RenderStep
           /\ calls # <<>>
           /\ LastCall.op = "removeFromCart"
           /\ LinesOf(cartItems, LastCall.productId) # {})
          => /\ cartItems' = Without(cartItems, LastCall.productId)
             /\ LinesOf(cartItems', LastCall.productId) = {}
             /\ Len(cartItems') = Len(cartItems)
                    - Cardinality(LinesOf(cartItems, LastCall.productId))]_vars

\* removeFromCart("p2") has been called on a list that holds p1 only
C15_Witness ==
    /\ ~loading
    /\ effects = "none"
    /\ Len(cartItems) = 1
    /\ cartItems[1].productId = "p1"
    /\ Len(calls) = 1
    /\ calls[1] = RemoveCall("p2")

\* C16: the render that applies addToCart(product, q) commits, for a
\* productId in the list, the same list with q added to the quantity of the
\* (first) line item of that productId, its other fields as they were even
\* when the product passed carries other values; for a new productId, the
\* same list with one line item built from the product appended.
C16_AddChangesOnlyItsLine ==
    [][(RenderStep /\ calls # <<>> /\ LastCall.op = "addToCart")
       => IF LinesOf(cartItems, LastCall.productId) # {}
          THEN /\ Len(cartItems') = Len(cartItems)
               /\ \A i \in 1..Len(cartItems) :
                    cartItems'[i] =
                        IF i = FirstLineOf(cartItems, LastCall.productId)
                        THEN WithQuantity(cartItems[i],
                                          cartItems[i].quantity + LastCall.quantity)
                        ELSE cartItems[i]
          ELSE /\ Len(cartItems') = Len(cartItems) + 1
               /\ \A i \in 1..Len(cartItems) : cartItems'[i] = cartItems[i]
               /\ cartItems'[Len(cartItems')] =
                    [productId |-> LastCall.product._id,
                     title |-> LastCall.product.title,
                     price |-> LastCall.product.price,
                     imageUrl |-> LastCall.product.imageUrl,
                     stock |-> LastCall.product.stock,
                     quantity |-> LastCall.quantity]]_vars

\* addToCart has been called with product p1 under its new title and price on
\* a list that holds p1 under its first title, after p2
C16_Witness ==
    /\ ~loading
    /\ effects = "none"
    /\ Len(cartItems) = 2
    /\ cartItems[1].productId = "p2"
    /\ cartItems[2].productId = "p1"
    /\ cartItems[2].title = "A"
    /\ Len(calls) = 1
    /\ calls[1].op = "addToCart"
    /\ calls[1].product.title = "A2"

\* C17: with a parseable list under the key, the render that ends restore
\* commits exactly the stored list, whatever operations were called while
\* loading was true; with no entry under the key, that render commits the
\* result of the operations called while loading was true, and the persist
\* effect of that render writes it.
C17_RestoreReplaces ==
    [][/\ (/\ RenderStep
           /\ loading
           /\ startup = "parsed"
           /\ IsCartArray(Parse(storage.text).v))
          => cartItems' = AsCart(Parse(storage.text).v)
       /\ (RenderStep /\ loading /\ startup = "absent")
          => cartItems' = ApplyInOrder(calls, cartItems, 1)
       /\ (PersistStep /\ startup = "absent")
          => storage' = Entry(Stringify(cartItems))]_vars

====
